---- MODULE Spec2Model ----
(***************************************************************************)
(* The incremental sync engines of the scrappers repository: the           *)
(* sequential index syncs (memes/index, pdb/index, qmeme/index, yzk/xl)    *)
(* with their _deploy closure, the upload limiter and the store; the       *)
(* table-to-table syncs (pdb/db, memes/page, imgflip/db, yzk/dx), whose    *)
(* blocks are handed to a pool of workers; imgflip/index with its merge;   *)
(* the search of the last page of qmeme/index and imgflip/page; and one    *)
(* call of get_profile / get_comments of pdb/profile.                      *)
(*                                                                         *)
(* Time is a discrete clock `now`; every time.time() of the code reads     *)
(* it. A network call lets 0..MaxDt units pass.  The remote source is      *)
(* fixed when a behaviour starts (variable src), so that a second run of   *)
(* the same sync sees the unchanged source.  A behaviour is one run of     *)
(* sync() on an empty destination, followed by at most one more run on     *)
(* the store the first one left.                                           *)
(*                                                                         *)
(* A row of a table is its id column (in pdb/index also mbti_typeid, in    *)
(* imgflip/index also caption_url, alt_names and default_settings, in      *)
(* imgflip/db also volume_file, the directory and the file name of the     *)
(* path of the archive); the tags column of memes/index is kept beside     *)
(* the records, with the tag table.  A row of the comments table of        *)
(* pdb/db is its id and profile_id.  The README and the files of yzk/dx    *)
(* that are written next to the table are not part of the state modelled   *)
(* here.  A task of imgflip/index that has merged holds the lock until     *)
(* the _deploy it calls has returned; the other tasks go on with their     *)
(* tests and fetches meanwhile.                                            *)
(***************************************************************************)
EXTENDS Integers, Sequences, FiniteSets, TLC

VARIABLES
    prog,          \* which sync() is running: "memes", "pdb", "qmeme", "xl", "pdbdb", ...
    second,        \* FALSE in the first run, TRUE in the run started from its output
    exit1,         \* how the first run ended, once the second has started
    pc,            \* position of the run in sync()
    ret,           \* position to continue at when the pending _deploy returns
    force,         \* argument of the pending _deploy call
    exit,          \* why the loop of sync() was left
    now,           \* time.time()
    start_time,    \* start_time of sync()
    src,           \* the remote source (unchanged across runs)
    loc,           \* the loop's local variables (per scraper)
    records,       \* the accumulator: sequence of rows
    exist_ids,     \* the ledger
    exist_groups,  \* qmeme meta state
    has_update,
    last_update,   \* _last_update, None or a time
    total_count,   \* _total_count
    limiter,       \* hf_upload_limiter: None or the time of the last acquire
    store,         \* the destination repository
    loaded,        \* the table read from the store when the run started
    uploads        \* the upload operations of this run, in order

vars == <<prog, second, exit1, pc, ret, force, exit, now, start_time, src, loc,
          records, exist_ids, exist_groups, has_update, last_update, total_count,
          limiter, store, loaded, uploads>>

(* what a run never changes *)
runVars == <<prog, second, exit1, start_time, src, loaded>>
(* what only _deploy changes *)
deployVars == <<last_update, total_count, limiter, store, uploads>>

-----------------------------------------------------------------------------
(* Bounds of the model; the parameters of sync() are scaled to the clock *)

MaxLen == 4             \* longest feed of memes/index
MaxGroups == 2          \* (typeid, dest) pairs of pdb/index, groups of qmeme/index
MaxItems == 3           \* items of all groups of qmeme/index together
MaxProfiles == 2        \* items of all pairs of pdb/index together
MaxListing == 2         \* entries of the listing pages of yzk/xl
MaxTime == 4            \* network calls take no time once now has reached it
MaxDt == 1              \* longest duration of one network call
PageSize == 2           \* items per page of the knowyourmeme feed
limit == 1              \* iter_ptx_from_cursor(limit=...)
deploy_span == 2        \* sync(deploy_span=...)
upload_time_span == 1   \* sync(upload_time_span=...)
max_time_limit == 2     \* sync(max_time_limit=...)
MaxRows == 3            \* rows of the source table of a table-to-table sync
MaxBatch == 2           \* largest batch_size
max_workers == 2        \* ThreadPoolExecutor(max_workers=...)
MaxTemplates == 2       \* templates iter_all_templates yields
MaxRetries == 5         \* largest max_retries of get_profile, get_comments

(* Program constants *)
None == -1              \* _last_update = None
EmptyPageLimit == 10    \* if empty_page_count >= 10
max_no_new_page == 10   \* iter_ptx_from_cursor(max_no_new_page=10)

Ids == {3, 5, 7}

(* durations a network call started now may take *)
Dts == {d \in 0..MaxDt : now + d <= MaxTime}

-----------------------------------------------------------------------------
(* Helpers *)

RECURSIVE SeqsUpTo(_, _)
SeqsUpTo(S, n) ==
    IF n = 0 THEN {<<>>}
    ELSE LET shorter == SeqsUpTo(S, n - 1)
         IN shorter \cup {Append(s, x) : s \in {t \in shorter : Len(t) = n - 1}, x \in S}

RECURSIVE SumLen(_)
SumLen(feeds) == IF feeds = <<>> THEN 0 ELSE Len(Head(feeds)) + SumLen(Tail(feeds))

(* lists of at most MaxGroups item lists over S, n items in all *)
Feeds(S, n) == {g \in SeqsUpTo(SeqsUpTo(S, n), MaxGroups) : SumLen(g) <= n}

Min(a, b) == IF a < b THEN a ELSE b
Max(a, b) == IF a > b THEN a ELSE b

(* a row of the table; its id column *)
Row(i) == [id |-> i]

IdsOf(table) == {table[k].id : k \in 1..Len(table)}

RECURSIVE InsertDesc(_, _)
InsertDesc(sorted, row) ==
    IF sorted = <<>> THEN <<row>>
    ELSE IF row.id >= Head(sorted).id THEN <<row>> \o sorted
    ELSE <<Head(sorted)>> \o InsertDesc(Tail(sorted), row)

SortNone(table) == table

(* df_records.sort_values(by=['id'], ascending=[False]) *)
RECURSIVE SortDesc(_)
SortDesc(table) ==
    IF table = <<>> THEN <<>>
    ELSE InsertDesc(SortDesc(Tail(table)), Head(table))

-----------------------------------------------------------------------------
(* The store and the state sync() builds from it before its loop *)

(* d_tags of memes/index with no tag in it; the tag table of a repository
   that has none *)
EmptyTags == [tag \in {} |-> 0]

EmptyStore == [exists |-> FALSE, table |-> <<>>, groups |-> {}, max_volume_id |-> 0,
               archives |-> {}, tags |-> EmptyTags,
               comments |-> <<>>]

(* records, exist_ids, exist_groups, _last_update, has_update, _total_count,
   the limiter *)
Load(st) ==
    /\ records = st.table
    /\ exist_ids = IdsOf(st.table)
    /\ exist_groups = st.groups
    /\ loaded = st.table
    /\ has_update = FALSE
    /\ last_update = None
    /\ total_count = Len(st.table)
    /\ limiter = None
    /\ uploads = <<>>
    /\ force = FALSE
    /\ exit = "none"

-----------------------------------------------------------------------------
(* The ledger test and the admission of a record *)

SeenNever(id) == FALSE

(* item['id'] in exist_ids *)
Seen(id) == id \in exist_ids

AdmitReplace(id) ==
    /\ records' = <<Row(id)>>
    /\ exist_ids' = {id}
    /\ has_update' = TRUE

AdmitNoLedger(id) ==
    /\ records' = Append(records, Row(id))
    /\ exist_ids' = exist_ids
    /\ has_update' = TRUE

(* records.append(...); exist_ids.add(id); has_update = True *)
Admit(id) ==
    /\ records' = Append(records, Row(id))
    /\ exist_ids' = exist_ids \cup {id}
    /\ has_update' = TRUE

LimitNever == FALSE

(* start_time + max_time_limit < time.time() *)
LimitReached == start_time + max_time_limit < now

-----------------------------------------------------------------------------
(* _deploy *)

AcquireNoWait == now

(* hf_upload_limiter.try_acquire: one acquire per upload_time_span; a call
   that comes too early sleeps until the span has passed (max_delay 1 << 32).
   The time at which the acquire returns. *)
AcquireTime ==
    IF limiter = None THEN now ELSE Max(now, limiter + upload_time_span)

ProceedsUnforced(f) ==
    has_update /\ ~(last_update # None /\ last_update + deploy_span > now)

ProceedsLate(f) ==
    has_update /\ ~(~f /\ last_update # None /\ last_update + deploy_span >= now)

(* the two early returns of _deploy(force=f) are not taken *)
Proceeds(f) ==
    has_update /\ ~(~f /\ last_update # None /\ last_update + deploy_span > now)

UploadRaisesCleared ==
    /\ pc' = "raised"
    /\ has_update' = FALSE
    /\ UNCHANGED <<store, last_update, total_count>>

(* upload_directory_as_directory raises: the three assignments after the call
   are not reached and the exception leaves _deploy and sync *)
UploadRaises ==
    /\ pc' = "raised"
    /\ UNCHANGED <<store, has_update, last_update, total_count>>

(* _deploy(force): the table is sorted and written, the limiter is acquired,
   the directory is uploaded; the upload takes d units and succeeds or raises *)
Deploy ==
    /\ pc = "deploy"
    /\ IF ~Proceeds(force)
       THEN /\ pc' = ret
            /\ UNCHANGED <<now, has_update, deployVars>>
       ELSE IF records = <<>>
       THEN \* pd.DataFrame([]).sort_values(by=['id']) raises KeyError
            /\ pc' = "raised"
            /\ UNCHANGED <<now, has_update, deployVars>>
       ELSE IF prog = "memes" /\ loc.d_tags = EmptyTags
       THEN \* memes/index: pd.DataFrame([]).sort_values(['count', 'data']) raises KeyError
            /\ pc' = "raised"
            /\ UNCHANGED <<now, has_update, deployVars>>
       ELSE LET df_records == SortDesc(records)
                at == AcquireTime
            IN /\ limiter' = at
               /\ \E ok \in BOOLEAN, d \in {x \in 0..MaxDt : now + x <= MaxTime} :
                    /\ now' = at + d
                    /\ uploads' = Append(uploads,
                           [called |-> now, at |-> at, end |-> at + d,
                            table |-> df_records, groups |-> exist_groups,
                            n |-> Len(df_records) - total_count,
                            force |-> force, ok |-> ok])
                    /\ IF ok
                       THEN /\ store' = [store EXCEPT
                                            !.exists = TRUE,
                                            !.table = df_records,
                                            !.groups = exist_groups,
                                            !.tags = IF prog = "memes" THEN loc.d_tags ELSE @]
                            /\ has_update' = FALSE
                            /\ last_update' = at + d
                            /\ total_count' = Len(df_records)
                            /\ pc' = ret
                       ELSE UploadRaises
    /\ UNCHANGED <<runVars, ret, force, exit, loc, records, exist_ids, exist_groups>>

(* a call of _deploy(force=f): the closure runs next and returns to r *)
CallDeploy(f, r) ==
    /\ pc' = "deploy"
    /\ force' = f
    /\ ret' = r

(* the loop of sync() is left: the final _deploy(force=True) *)
Finish(why) ==
    /\ CallDeploy(TRUE, "done")
    /\ exit' = why

-----------------------------------------------------------------------------
(* memes/index.py *)

Tags == {"x", "y"}

(* item['tags'] as the list of its tag_item['data'] *)
TagLists == {<<>>, <<"x">>, <<"x", "y">>, <<"y", "y">>}

(* every item carries the one tag x *)
Tagged(f) == [k \in 1..Len(f) |-> <<"x">>]

(* feed: the ids of the items of the site, newest first; tags: the tag lists
   of these items; cyclic: the site answers an offset past the end of the
   feed as if the feed went round, so no page is empty; sync_mode: the
   argument of sync(), False by default *)
MemesSources ==
    {[feed |-> f, tags |-> Tagged(f), cyclic |-> FALSE, sync_mode |-> FALSE] :
        f \in SeqsUpTo(Ids, MaxLen)}

MaxTagged == 2
MaxVolume == 2001        \* largest volume id whose path is compared
MaxCommented == 2       \* most rows of the source table of pdb/db with comments

(* short feeds whose items carry any tag lists, none too *)
MemesTagSources ==
    {[feed |-> f, tags |-> t, cyclic |-> FALSE, sync_mode |-> FALSE] :
        f \in SeqsUpTo(Ids, MaxTagged), t \in SeqsUpTo(TagLists, MaxTagged)}

MaxCycle == 2

MemesCyclicSources ==
    {[feed |-> f, tags |-> Tagged(f), cyclic |-> TRUE, sync_mode |-> m] :
        f \in SeqsUpTo(Ids, MaxCycle) \ {<<>>}, m \in BOOLEAN}

(* d_tags: the tag table, a count for each tag in it; tag_lists: the tags
   column of the records admitted in this run *)
MemesLoc == [offset |-> 0, empty_page_count |-> 0, page_items |-> <<>>,
             k |-> 1, has_new_item |-> FALSE, d_tags |-> EmptyTags, tag_lists |-> <<>>]

(* the place in the feed of the k-th item of the page at offset *)
FeedPos(offset, k) ==
    IF src.cyclic THEN ((offset + k - 1) % Len(src.feed)) + 1 ELSE offset + k

AddTagsOnce(d_tags, tag_list) ==
    [tag \in DOMAIN d_tags \cup {tag_list[i] : i \in 1..Len(tag_list)} |->
        IF tag \in DOMAIN d_tags THEN d_tags[tag] + 1 ELSE 1]

(* for tag_item in item['tags']: the row of the tag is made with count 0 when
   it is not in d_tags, and its count goes up by one *)
RECURSIVE AddTags(_, _)
AddTags(d_tags, tag_list) ==
    IF tag_list = <<>> THEN d_tags
    ELSE LET tag == Head(tag_list)
             count == IF tag \in DOMAIN d_tags THEN d_tags[tag] ELSE 0
         IN AddTags([t \in DOMAIN d_tags \cup {tag} |->
                        IF t = tag THEN count + 1 ELSE d_tags[t]],
                    Tail(tag_list))

(* _get_index_by_offset(offset): the feed from the offset on, one page of it *)
GetIndexByOffset(offset) ==
    IF src.cyclic
    THEN [k \in 1..PageSize |-> src.feed[((offset + k - 1) % Len(src.feed)) + 1]]
    ELSE SubSeq(src.feed, offset + 1, Min(offset + PageSize, Len(src.feed)))

(* while True: the time check, then the page is fetched *)
MemesLoop ==
    /\ prog = "memes" /\ pc = "loop"
    /\ IF LimitReached
       THEN /\ Finish("time")
            /\ UNCHANGED <<now, loc>>
       ELSE /\ \E dt \in Dts : now' = now + dt
            /\ loc' = [loc EXCEPT !.page_items = GetIndexByOffset(loc.offset),
                                  !.k = 1, !.has_new_item = FALSE]
            /\ pc' = "items"
            /\ UNCHANGED <<force, ret, exit>>
    /\ UNCHANGED <<runVars, deployVars, records, exist_ids, exist_groups, has_update>>

(* one iteration of `for item in page_items`, or the _deploy(force=False)
   that follows the loop *)
MemesItem ==
    /\ prog = "memes" /\ pc = "items"
    /\ IF loc.k > Len(loc.page_items) \/ LimitReached
       THEN /\ CallDeploy(FALSE, "pageend")
            /\ UNCHANGED <<now, loc, records, exist_ids, has_update>>
       ELSE LET item == loc.page_items[loc.k]
            IN /\ IF Seen(item)
                  THEN /\ loc' = [loc EXCEPT !.k = @ + 1]
                       /\ UNCHANGED <<records, exist_ids, has_update>>
                  ELSE LET tag_list == src.tags[FeedPos(loc.offset, loc.k)]
                       IN /\ Admit(item)
                          /\ loc' = [loc EXCEPT !.k = @ + 1, !.has_new_item = TRUE,
                                                !.d_tags = AddTags(@, tag_list),
                                                !.tag_lists = Append(@, tag_list)]
               /\ \E dt \in Dts : now' = now + dt
               /\ UNCHANGED <<pc, force, ret>>
    /\ UNCHANGED <<runVars, deployVars, exit, exist_groups>>

QuietNever(empty_page_count) == FALSE

QuietInSyncMode(empty_page_count) == src.sync_mode /\ empty_page_count >= EmptyPageLimit

(* if empty_page_count >= 10 *)
Quiet(empty_page_count) == empty_page_count >= EmptyPageLimit

(* after _deploy(force=False): offset, the empty page, empty_page_count *)
MemesPageEnd ==
    /\ prog = "memes" /\ pc = "pageend"
    /\ LET epc == IF ~loc.has_new_item THEN loc.empty_page_count + 1 ELSE 0
       IN /\ loc' = [loc EXCEPT !.offset = @ + Len(loc.page_items),
                                !.empty_page_count =
                                    IF loc.page_items = <<>> THEN @ ELSE epc]
          /\ IF loc.page_items = <<>>
             THEN Finish("exhausted")
             ELSE IF Quiet(epc)
             THEN Finish("quiet")
             ELSE /\ pc' = "loop"
                  /\ UNCHANGED <<force, ret, exit>>
    /\ UNCHANGED <<runVars, deployVars, now, records, exist_ids, exist_groups, has_update>>

-----------------------------------------------------------------------------
(* pdb/ptx.py and pdb/index.py *)

(* An item of the profiles API: its id as the JSON carries it, a number or a
   string of digits.  int(item['id']) gives the number. *)
Raw(i, isStr) == [id |-> i, str |-> isStr]
ToInt(raw) == [id |-> raw.id, str |-> FALSE]

(* The remote of one (typeid, dest) pair serves its feed in pages of `limit`
   items.  cursor 0 is '' (the first page); a cyclic remote answers the last
   page with a non-empty cursor that leads to the first page again. *)
NumPages(feed) == (Len(feed) + limit - 1) \div limit
PageNo(cursor) == IF cursor = 0 THEN 1 ELSE cursor
Results(feed, cursor) ==
    SubSeq(feed, (PageNo(cursor) - 1) * limit + 1, Min(PageNo(cursor) * limit, Len(feed)))
NextCursor(feed, cursor, cyclic) ==
    IF PageNo(cursor) < NumPages(feed) THEN PageNo(cursor) + 1
    ELSE IF cyclic THEN 1 ELSE 0

PdbIds == {3, 5}

PdbSources ==
    {[groups |-> g, cyclic |-> c, rawStr |-> r] :
        g \in Feeds(PdbIds, MaxProfiles), c \in BOOLEAN, r \in BOOLEAN}

(* g: index of the (typeid, dest) pair; the rest are the locals of the
   running iter_ptx_from_cursor generator *)
PdbLoc == [g |-> 1, cursor |-> 0, results |-> <<>>, k |-> 1,
           exist_ids |-> {}, no_new_count |-> 0, has_new_item |-> FALSE]

(* the generator requests the page at its cursor, or the for loops are over *)
PdbFetch ==
    /\ prog = "pdb" /\ pc = "loop"
    /\ IF loc.g > Len(src.groups)
       THEN /\ Finish("exhausted")
            /\ UNCHANGED <<now, loc>>
       ELSE /\ \E dt \in Dts : now' = now + dt
            /\ loc' = [loc EXCEPT !.results = Results(src.groups[loc.g], loc.cursor),
                                  !.k = 1, !.has_new_item = FALSE]
            /\ pc' = "items"
            /\ UNCHANGED <<force, ret, exit>>
    /\ UNCHANGED <<runVars, deployVars, records, exist_ids, exist_groups, has_update>>

(* the generator after the last item of a page: no_new_count, nextCursor;
   when it stops, the generator of the next pair starts *)
PtxPageEnd ==
    LET nnc == IF ~loc.has_new_item THEN loc.no_new_count + 1 ELSE 0
        cursor == NextCursor(src.groups[loc.g], loc.cursor, src.cyclic)
    IN IF nnc >= max_no_new_page \/ cursor = 0
       THEN [PdbLoc EXCEPT !.g = loc.g + 1]
       ELSE [loc EXCEPT !.no_new_count = nnc, !.cursor = cursor]

(* the typeid of the g-th (typeid, dest) pair: the pairs of the model are of
   different MBTI types *)
TypeId(g) == g

AdmitPdbOverwrite(id) ==
    /\ records' = [k \in 1..Len(records) |->
                      IF records[k].id = id
                      THEN [id |-> id, mbti_typeid |-> TypeId(loc.g)]
                      ELSE records[k]]
                  \o (IF id \in IdsOf(records) THEN <<>>
                      ELSE <<[id |-> id, mbti_typeid |-> TypeId(loc.g)]>>)
    /\ exist_ids' = exist_ids \cup {id}
    /\ has_update' = TRUE

(* the body of `for item in iter_ptx_from_cursor(...)` up to _deploy: the
   record is the item with the id and the type of the pair *)
AdmitPdb(id) ==
    IF ~Seen(id)
    THEN /\ records' = Append(records, [id |-> id, mbti_typeid |-> TypeId(loc.g)])
         /\ exist_ids' = exist_ids \cup {id}
         /\ has_update' = TRUE
    ELSE UNCHANGED <<records, exist_ids, has_update>>

(* one item of data['results']: yielded to the loop body of sync() unless the
   generator has seen its id; the body converts the id in place, so the id the
   generator adds to its exist_ids after the yield is the converted one *)
PdbItem ==
    /\ prog = "pdb" /\ pc = "items"
    /\ IF loc.k > Len(loc.results)
       THEN /\ loc' = PtxPageEnd
            /\ pc' = "loop"
            /\ UNCHANGED <<force, ret, records, exist_ids, has_update>>
       ELSE LET item == Raw(loc.results[loc.k], src.rawStr)
                id == ToInt(item).id
            IN IF item \in loc.exist_ids
               THEN /\ loc' = [loc EXCEPT !.k = @ + 1]
                    /\ UNCHANGED <<pc, force, ret, records, exist_ids, has_update>>
               ELSE /\ AdmitPdb(id)
                    /\ loc' = [loc EXCEPT !.k = @ + 1, !.has_new_item = TRUE,
                                          !.exist_ids = @ \cup {ToInt(item)}]
                    /\ CallDeploy(FALSE, "items")
    /\ UNCHANGED <<runVars, deployVars, exit, now, exist_groups>>

-----------------------------------------------------------------------------
(* qmeme/index.py *)

Titles == {"a", "b"}
QmemeIds == {3, 5}

QmemeSources ==
    {[groups |-> [k \in DOMAIN g |-> [title |-> t[k], items |-> g[k]]]] :
        g \in Feeds(QmemeIds, MaxItems), t \in [1..MaxGroups -> Titles]}

QmemeLoc == [g |-> 1, k |-> 1]

(* for gtitle, base_url in get_meme_list(): the time check, the exist_groups
   check, then list_all_from_page starts *)
QmemeGroup ==
    /\ prog = "qmeme" /\ pc = "loop"
    /\ IF loc.g > Len(src.groups)
       THEN /\ Finish("exhausted")
            /\ UNCHANGED <<now, loc>>
       ELSE IF LimitReached
       THEN /\ Finish("time")
            /\ UNCHANGED <<now, loc>>
       ELSE IF src.groups[loc.g].title \in exist_groups
       THEN /\ loc' = [loc EXCEPT !.g = @ + 1]
            /\ UNCHANGED <<pc, force, ret, exit, now>>
       ELSE /\ \E dt \in Dts : now' = now + dt
            /\ loc' = [loc EXCEPT !.k = 1]
            /\ pc' = "items"
            /\ UNCHANGED <<force, ret, exit>>
    /\ UNCHANGED <<runVars, deployVars, records, exist_ids, exist_groups, has_update>>

WalkEndsEarly(group) == loc.k >= Len(group.items)

(* `for item in list_all_from_page(...)` is exhausted *)
WalkEnds(group) == loc.k > Len(group.items)

(* one item of list_all_from_page, or the end of the group *)
QmemeItem ==
    /\ prog = "qmeme" /\ pc = "items"
    /\ LET group == src.groups[loc.g]
       IN IF WalkEnds(group)
          THEN /\ exist_groups' = exist_groups \cup {group.title}
               /\ has_update' = TRUE
               /\ loc' = [loc EXCEPT !.g = @ + 1]
               /\ CallDeploy(FALSE, "loop")
               /\ UNCHANGED <<now, records, exist_ids>>
          ELSE LET item == group.items[loc.k]
               IN /\ \E dt \in Dts : now' = now + dt
                  /\ loc' = [loc EXCEPT !.k = @ + 1]
                  /\ IF Seen(item)
                     THEN UNCHANGED <<pc, force, ret, records, exist_ids, has_update>>
                     ELSE /\ Admit(item)
                          /\ CallDeploy(FALSE, "items")
                  /\ UNCHANGED exist_groups
    /\ UNCHANGED <<runVars, deployVars, exit>>

-----------------------------------------------------------------------------
(* yzk/xl.py and yzk/page.py *)

(* listing: the ids in the file names of the listed page urls, in order;
   final[i]: the id in the file name of resp.url when the page of listing id i
   is requested (the request may be redirected) *)
XlSources ==
    {[listing |-> l, final |-> f] : l \in SeqsUpTo(Ids, MaxListing), f \in [Ids -> Ids]}

(* k: position in the listing; converted: calls of extract_page_info *)
XlLoc == [k |-> 1, converted |-> 0]

(* extract_page_info(purl)['id'] *)
ExtractPageInfo(id_) == src.final[id_]

(* one (title, purl) of extract_page_urls, or the end of the listing *)
XlItem ==
    /\ prog = "xl" /\ pc = "loop"
    /\ IF loc.k > Len(src.listing)
       THEN /\ Finish("exhausted")
            /\ UNCHANGED <<now, loc, records, exist_ids, has_update>>
       ELSE LET id_ == src.listing[loc.k]
                info == ExtractPageInfo(id_)
            IN /\ \E dt \in Dts : now' = now + dt
               /\ IF Seen(id_)
                  THEN /\ loc' = [loc EXCEPT !.k = @ + 1]
                       /\ UNCHANGED <<pc, force, ret, exit, records, exist_ids, has_update>>
                  ELSE /\ loc' = [loc EXCEPT !.k = @ + 1, !.converted = @ + 1]
                       /\ Admit(info)
                       /\ CallDeploy(FALSE, "loop")
                       /\ UNCHANGED exit
    /\ UNCHANGED <<runVars, deployVars, exist_groups>>

-----------------------------------------------------------------------------
(* A run of sync() *)

InitLoc(p) ==
    CASE p = "memes" -> MemesLoc
      [] p = "pdb" -> PdbLoc
      [] p = "qmeme" -> QmemeLoc
      [] p = "xl" -> XlLoc

Sources(p) ==
    CASE p = "memes" -> MemesSources
      [] p = "pdb" -> PdbSources
      [] p = "qmeme" -> QmemeSources
      [] p = "xl" -> XlSources

(* sync() called on an empty destination *)
InitProg(p) ==
    /\ prog = p
    /\ second = FALSE
    /\ exit1 = "none"
    /\ src \in Sources(p)
    /\ store = EmptyStore
    /\ now = 0
    /\ start_time = 0
    /\ Load(EmptyStore)
    /\ loc = InitLoc(p)
    /\ pc = "loop"
    /\ ret = "loop"

(* the second run: sync() again, on the store the first run left *)
Restart ==
    /\ pc \in {"done", "raised"}
    /\ ~second
    /\ UNCHANGED <<prog, now, src, store>>
    /\ second' = TRUE
    /\ exit1' = IF pc = "done" THEN exit ELSE "raised"
    /\ start_time' = now
    /\ records' = store.table
    /\ exist_ids' = IdsOf(store.table)
    /\ exist_groups' = store.groups
    /\ loaded' = store.table
    /\ has_update' = FALSE
    /\ last_update' = None
    /\ total_count' = Len(store.table)
    /\ limiter' = None
    /\ uploads' = <<>>
    /\ force' = FALSE
    /\ exit' = "none"
    /\ loc' = IF prog = "memes" THEN [MemesLoc EXCEPT !.d_tags = store.tags]
               ELSE InitLoc(prog)
    /\ pc' = "loop"
    /\ ret' = "loop"

InitMemes == InitProg("memes")
InitPdb == InitProg("pdb")
InitQmeme == InitProg("qmeme")
InitXl == InitProg("xl")

NextMemes == MemesLoop \/ MemesItem \/ MemesPageEnd \/ Deploy \/ Restart
NextPdb == PdbFetch \/ PdbItem \/ Deploy \/ Restart
NextQmeme == QmemeGroup \/ QmemeItem \/ Deploy \/ Restart
NextXl == XlItem \/ Deploy \/ Restart

SpecMemes == InitMemes /\ [][NextMemes]_vars

(* memes/index on a site that never answers with an empty page *)
InitMemesCyclic ==
    /\ prog = "memes"
    /\ second = FALSE
    /\ exit1 = "none"
    /\ src \in MemesCyclicSources
    /\ store = EmptyStore
    /\ now = 0
    /\ start_time = 0
    /\ Load(EmptyStore)
    /\ loc = MemesLoc
    /\ pc = "loop"
    /\ ret = "loop"

(* memes/index on short feeds of items with any tag lists *)
InitMemesTags ==
    /\ prog = "memes"
    /\ second = FALSE
    /\ exit1 = "none"
    /\ src \in MemesTagSources
    /\ Len(src.tags) = Len(src.feed)
    /\ store = EmptyStore
    /\ now = 0
    /\ start_time = 0
    /\ Load(EmptyStore)
    /\ loc = MemesLoc
    /\ pc = "loop"
    /\ ret = "loop"

SpecMemesTags == InitMemesTags /\ [][NextMemes]_vars

(* a running sync() goes on running: each request is answered and each
   statement is followed by the next *)
SpecMemesLive == InitMemesCyclic /\ [][NextMemes]_vars /\ WF_vars(NextMemes)
SpecPdb == InitPdb /\ [][NextPdb]_vars
SpecQmeme == InitQmeme /\ [][NextQmeme]_vars
SpecXl == InitXl /\ [][NextXl]_vars

Init == InitMemes \/ InitPdb \/ InitQmeme \/ InitXl
Next ==
    \/ MemesLoop \/ MemesItem \/ MemesPageEnd
    \/ PdbFetch \/ PdbItem
    \/ QmemeGroup \/ QmemeItem
    \/ XlItem
    \/ Deploy
    \/ Restart
Spec == Init /\ [][Next]_vars

-----------------------------------------------------------------------------
(* pdb/db.py, memes/page.py, imgflip/db.py: the block-oriented syncs.  The
   source is the table of src_repo; the candidates are cut into blocks of
   batch_size rows, each block is handed to a pool of workers, and the table
   is published after the block. *)

DbProgs == {"pdbdb", "page", "imgflipdb"}

(* the profile id -> the id of the profile get_profile returns for it: the
   same id, but for at most one id of the table *)
Finals == {f \in [Ids -> Ids] : Cardinality({i \in Ids : f[i] # i}) <= 1}

Identity == [i \in Ids |-> i]

(* the profile id -> the ids of the comments get_comments returns for it *)
CommentIds == {11, 12}
CommentLists == {<<>>, <<11>>, <<11, 12>>, <<12, 12>>}
OwnComments == [i \in Ids |-> <<i>>]
NoComments == [i \in Ids |-> <<>>]

DbSources(p) ==
    {[table |-> t, final |-> f, batch_size |-> b, comments |-> c] :
        t \in SeqsUpTo(Ids, MaxRows),
        f \in IF p = "pdbdb" THEN Finals ELSE {Identity},
        b \in 1..MaxBatch,
        c \in IF p = "pdbdb" THEN {OwnComments} ELSE {NoComments}}

(* pdb/db with the comment lists of the profiles of the table varied, on
   tables of up to MaxCommented rows *)
PdbDbSources ==
    {s \in {[table |-> t, final |-> f, batch_size |-> b, comments |-> c] :
               t \in SeqsUpTo(Ids, MaxCommented),
               f \in Finals,
               b \in 1..MaxBatch,
               c \in [Ids -> CommentLists]} :
        \A i \in Ids : (\A k \in 1..Len(s.table) : s.table[k] # i) => s.comments[i] = <<>>}

CommentRow(c, profile_id) == [id |-> c, profile_id |-> profile_id]

AddCommentsAll(comments, items, profile_id) ==
    comments \o [k \in 1..Len(items) |-> CommentRow(items[k], profile_id)]

(* for comment_item in comment_items: if comment_item['id'] not in
   exist_comment_ids: comments.append(comment_item);
   exist_comment_ids.add(comment_item['id']) *)
RECURSIVE AddComments(_, _, _)
AddComments(comments, items, profile_id) ==
    IF items = <<>> THEN comments
    ELSE AddComments(IF Head(items) \in IdsOf(comments) THEN comments
                     ELSE Append(comments, CommentRow(Head(items), profile_id)),
                     Tail(items), profile_id)

(* df_comments.sort_values(by=['profile_id', 'id'], ascending=[False, False]) *)
RECURSIVE InsertComment(_, _)
InsertComment(sorted, row) ==
    IF sorted = <<>> THEN <<row>>
    ELSE IF \/ row.profile_id > Head(sorted).profile_id
            \/ row.profile_id = Head(sorted).profile_id /\ row.id > Head(sorted).id
         THEN <<row>> \o sorted
         ELSE <<Head(sorted)>> \o InsertComment(Tail(sorted), row)

RECURSIVE SortComments(_)
SortComments(table) ==
    IF table = <<>> THEN <<>>
    ELSE InsertComment(SortComments(SubSeq(table, 1, Len(table) - 1)), table[Len(table)])

(* df_src[~df_src['id'].isin(exist_ids)] *)
NotIn(table, ids) == SelectSeq(table, LAMBDA i : i \notin ids)

(* the orders random.random() can give the rows *)
Shuffles(table) ==
    {[k \in 1..Len(table) |-> table[p[k]]] :
        p \in {q \in [1..Len(table) -> 1..Len(table)] :
                  \A a, b \in 1..Len(table) : a # b => q[a] # q[b]}}

NumBlocksFloor(n, b) == n \div b

(* int(math.ceil(len(df_src) / batch_size)) *)
NumBlocks(n, b) == (n + b - 1) \div b

(* queue: the candidate rows; batch_id, block: the running block; w: the
   state of the task of each row of the block; lock: the index of the task
   that holds the lock, 0 when it is free; passes: the blocks started so
   far; fetched: for each of them, the positions of the rows whose fetch
   returned; tar, new_image_count, max_volume_id: the archive of the
   block of imgflip/db; comments, exist_comment_ids: the comment rows of
   pdb/db and their ids *)
DbLoc(queue, volume, df_comments) ==
    [queue |-> queue, batch_id |-> 0, block |-> <<>>, w |-> <<>>, lock |-> 0,
     passes |-> <<>>, fetched |-> <<>>, tar |-> <<>>, new_image_count |-> 0,
     max_volume_id |-> volume, comments |-> df_comments,
     exist_comment_ids |-> IdsOf(df_comments)]

DbLocs(p, st) ==
    IF p = "imgflipdb"
    THEN {DbLoc(q, st.max_volume_id, <<>>) :
             q \in Shuffles(NotIn(src.table, IdsOf(st.table)))}
    ELSE {DbLoc(NotIn(src.table, IdsOf(st.table)), 0,
                IF p = "pdbdb" THEN st.comments ELSE <<>>)}

Running == {i \in 1..Len(loc.w) : loc.w[i] \in {"fetching", "fetched", "locked", "commit"}}
Finished == {i \in 1..Len(loc.w) : loc.w[i] \in {"done", "failed"}}

ShutdownNoWait == TRUE

(* tp.shutdown(wait=True) returns (imgflip/db: parallel_call returns) *)
Shutdown == Finished = 1..Len(loc.w)

TarAddNothing(tar, filename) == tar

(* tar.add(dst_file, filename) *)
TarAdd(tar, filename) == Append(tar, filename)

SameVolume(volume) == volume

VolumeSize == 1000

(* f'{n:03d}' of a number below 1000: its three digits *)
Digits3(n) == <<n \div 100, (n \div 10) % 10, n % 10>>

VolumeFileFlat(volume) == [dir |-> 0, name |-> Digits3(volume % VolumeSize)]

(* os.path.join('images', f'{max_volume_id // 1000}',
   f'{max_volume_id % 1000:03d}.tar'): the directory and the file name *)
VolumeFile(volume) ==
    [dir |-> volume \div VolumeSize, name |-> Digits3(volume % VolumeSize)]

(* the files of the repository after an upload: a file of upload_dir
   replaces the file at its path *)
Uploaded(archives, files) ==
    {a \in archives : \A f \in files : f.path # a.path} \cup files

(* max_volume_id += 1 *)
NextVolume(volume) == volume + 1

(* the archive of the block in upload_dir: the tar file with its members, or
   none after os.remove(tar_file) *)
Archives ==
    IF prog = "imgflipdb" /\ loc.new_image_count > 0
    THEN {[volume |-> loc.max_volume_id, path |-> VolumeFile(loc.max_volume_id),
           members |-> loc.tar]}
    ELSE {}

dbFrame == <<prog, second, exit1, start_time, src, loaded, ret, force, exit,
             exist_groups, last_update>>

(* for batch_id in range(...): the block is cut and its rows are submitted *)
BlockStart ==
    /\ prog \in DbProgs /\ pc = "loop"
    /\ IF loc.batch_id >= NumBlocks(Len(loc.queue), src.batch_size)
       THEN /\ pc' = "done"
            /\ UNCHANGED <<loc, has_update>>
       ELSE LET df_block == SubSeq(loc.queue, loc.batch_id * src.batch_size + 1,
                                   Min((loc.batch_id + 1) * src.batch_size, Len(loc.queue)))
            IN /\ loc' = [loc EXCEPT
                            !.block = df_block,
                            !.w = [i \in 1..Len(df_block) |-> "queued"],
                            !.lock = 0,
                            !.passes = Append(@, df_block),
                            !.fetched = Append(@, {}),
                            !.tar = <<>>,
                            !.new_image_count = 0,
                            !.max_volume_id = IF prog = "imgflipdb" THEN NextVolume(@) ELSE @]
               /\ has_update' = FALSE
               /\ pc' = "pool"
    /\ UNCHANGED <<dbFrame, now, records, exist_ids, total_count, limiter, store, uploads>>

(* a thread of a pool takes the next submitted task and calls the fetch
   (get_profile and get_comments, get_page_text, download_file) *)
TaskStart(progs) ==
    /\ prog \in progs /\ pc = "pool"
    /\ Cardinality(Running) < max_workers
    /\ \E i \in 1..Len(loc.w) :
         /\ loc.w[i] = "queued"
         /\ \A j \in 1..(i - 1) : loc.w[j] # "queued"
         /\ loc' = [loc EXCEPT !.w[i] = "fetching"]
    /\ UNCHANGED <<dbFrame, pc, now, records, exist_ids, has_update, total_count,
                   limiter, store, uploads>>

(* tp.submit(_run, item) of pdb/db and memes/page *)
WorkerStart == TaskStart({"pdbdb", "page"})

(* parallel_call(df_block.to_dict('records'), _fn, ...) of imgflip/db: a
   bounded pool of workers as well *)
ParallelCallStart == TaskStart({"imgflipdb"})

(* the fetch returns or raises; an exception ends the task *)
TaskFetch(progs) ==
    /\ prog \in progs /\ pc = "pool"
    /\ \E i \in 1..Len(loc.w), ok \in BOOLEAN :
         /\ loc.w[i] = "fetching"
         /\ loc' = [loc EXCEPT !.w[i] = IF ok THEN "fetched" ELSE "failed",
                               !.fetched[Len(loc.fetched)] = IF ok THEN @ \cup {i} ELSE @]
    /\ UNCHANGED <<dbFrame, pc, now, records, exist_ids, has_update, total_count,
                   limiter, store, uploads>>

WorkerFetchAborts ==
    /\ prog \in {"pdbdb", "page"} /\ pc = "pool"
    /\ \E i \in 1..Len(loc.w), ok \in BOOLEAN :
         /\ loc.w[i] = "fetching"
         /\ loc' = [loc EXCEPT !.w[i] = IF ok THEN "fetched" ELSE "failed",
                               !.fetched[Len(loc.fetched)] = IF ok THEN @ \cup {i} ELSE @]
         /\ pc' = IF ok THEN "pool" ELSE "raised"
    /\ UNCHANGED <<dbFrame, now, records, exist_ids, has_update, total_count,
                   limiter, store, uploads>>

(* _run of pdb/db and memes/page: the exception is raised again and stays
   in the future of the task, which nothing reads *)
WorkerFetch == TaskFetch({"pdbdb", "page"})

(* _fn of imgflip/db under parallel_call: the failure of one item does not
   end the block *)
ParallelCallFetch == TaskFetch({"imgflipdb"})

(* with lock: (pdb/db and imgflip/db; memes/page has no lock) *)
WorkerLock ==
    /\ prog \in {"pdbdb", "imgflipdb"} /\ pc = "pool"
    /\ loc.lock = 0
    /\ \E i \in 1..Len(loc.w) :
         /\ loc.w[i] = "fetched"
         /\ loc' = [loc EXCEPT !.w[i] = "locked", !.lock = i]
    /\ UNCHANGED <<dbFrame, pc, now, records, exist_ids, has_update, total_count,
                   limiter, store, uploads>>

(* the first statements of the commit: the record is appended (pdb/db: when
   the id of the fetched profile is not in exist_ids, and the id is added;
   imgflip/db: after tar.add) *)
WorkerCommit ==
    /\ prog \in DbProgs /\ pc = "pool"
    /\ \E i \in 1..Len(loc.w) :
         /\ loc.w[i] = IF prog = "page" THEN "fetched" ELSE "locked"
         /\ CASE prog = "pdbdb" ->
                   LET id == src.final[loc.block[i]]
                   IN IF id \notin exist_ids
                      THEN LET added == AddComments(loc.comments,
                                                    src.comments[loc.block[i]],
                                                    loc.block[i])
                           IN /\ records' = Append(records, Row(id))
                              /\ exist_ids' = exist_ids \cup {id}
                              /\ loc' = [loc EXCEPT !.w[i] = "commit",
                                                    !.comments = added,
                                                    !.exist_comment_ids = IdsOf(added)]
                      ELSE /\ loc' = [loc EXCEPT !.w[i] = "done", !.lock = 0]
                           /\ UNCHANGED <<records, exist_ids>>
              [] prog = "page" ->
                   /\ records' = Append(records, Row(loc.block[i]))
                   /\ loc' = [loc EXCEPT !.w[i] = "commit"]
                   /\ UNCHANGED exist_ids
              [] prog = "imgflipdb" ->
                   /\ records' = Append(records, [id |-> loc.block[i],
                                                  volume_file |-> VolumeFile(loc.max_volume_id)])
                   /\ loc' = [loc EXCEPT !.w[i] = "commit", !.tar = TarAdd(@, loc.block[i])]
                   /\ UNCHANGED exist_ids
    /\ UNCHANGED <<dbFrame, pc, now, has_update, total_count, limiter, store, uploads>>

(* the last statements of the commit: has_update = True (imgflip/db:
   exist_ids.add, new_image_count += 1); the lock is released *)
WorkerFinish ==
    /\ prog \in DbProgs /\ pc = "pool"
    /\ \E i \in 1..Len(loc.w) :
         /\ loc.w[i] = "commit"
         /\ IF prog = "imgflipdb"
            THEN /\ exist_ids' = exist_ids \cup {loc.block[i]}
                 /\ loc' = [loc EXCEPT !.w[i] = "done", !.lock = 0,
                                       !.new_image_count = @ + 1]
                 /\ UNCHANGED has_update
            ELSE /\ has_update' = TRUE
                 /\ loc' = [loc EXCEPT !.w[i] = "done", !.lock = 0]
                 /\ UNCHANGED exist_ids
    /\ UNCHANGED <<dbFrame, pc, now, records, total_count, limiter, store, uploads>>

(* tp.shutdown(wait=True) has returned: `if not has_update: continue`
   (pdb/db, memes/page), else the table is sorted, written and uploaded *)
BlockPublish ==
    /\ prog \in DbProgs /\ pc = "pool"
    /\ Shutdown
    /\ IF prog # "imgflipdb" /\ ~has_update
       THEN /\ loc' = [loc EXCEPT !.batch_id = @ + 1]
            /\ pc' = "loop"
            /\ UNCHANGED <<now, total_count, limiter, store, uploads>>
       ELSE IF records = <<>>
       THEN \* pd.DataFrame([]).sort_values(by=['id']) raises KeyError
            /\ pc' = "raised"
            /\ UNCHANGED <<loc, now, total_count, limiter, store, uploads>>
       ELSE IF prog = "pdbdb" /\ loc.comments = <<>>
       THEN \* pd.DataFrame([]).sort_values(by=['profile_id', 'id']) raises KeyError
            /\ pc' = "raised"
            /\ UNCHANGED <<loc, now, total_count, limiter, store, uploads>>
       ELSE LET df_records == SortDesc(records)
                at == AcquireTime
            IN /\ limiter' = at
               /\ now' = at
               /\ \E ok \in BOOLEAN :
                    /\ uploads' = Append(uploads,
                           [called |-> now, at |-> at, end |-> at,
                            table |-> df_records, groups |-> {},
                            n |-> IF prog = "imgflipdb" THEN loc.new_image_count
                                  ELSE Len(df_records) - total_count,
                            force |-> FALSE, ok |-> ok])
                    /\ IF ok
                       THEN /\ store' = [store EXCEPT !.exists = TRUE,
                                                      !.table = df_records,
                                                      !.max_volume_id = loc.max_volume_id,
                                                      !.archives = Uploaded(@, Archives),
                                                      !.comments = IF prog = "pdbdb"
                                                                   THEN SortComments(loc.comments)
                                                                   ELSE @]
                            /\ total_count' = IF prog = "imgflipdb" THEN total_count
                                              ELSE Len(df_records)
                            /\ loc' = [loc EXCEPT !.batch_id = @ + 1]
                            /\ pc' = "loop"
                       ELSE /\ pc' = "raised"
                            /\ UNCHANGED <<loc, store, total_count>>
    /\ UNCHANGED <<dbFrame, records, exist_ids, has_update>>

-----------------------------------------------------------------------------
(* yzk/dx.py *)

RECURSIVE InsertAsc(_, _)
InsertAsc(sorted, i) ==
    IF sorted = <<>> THEN <<i>>
    ELSE IF i <= Head(sorted) THEN <<i>> \o sorted
    ELSE <<Head(sorted)>> \o InsertAsc(Tail(sorted), i)

(* df_src_pages.sort_values(by=['id'], ascending=[True]) *)
RECURSIVE SortAsc(_)
SortAsc(ids) ==
    IF ids = <<>> THEN <<>> ELSE InsertAsc(SortAsc(Tail(ids)), Head(ids))

(* table: the pages table of src_repo; yt_dlp: shutil.which('yt-dlp') finds
   the tool *)
DxSources == {[table |-> t, yt_dlp |-> y] : t \in SeqsUpTo(Ids, MaxRows), y \in BOOLEAN}

(* queue: the candidate pages; k: the position of the loop; skipped: the
   ids of the items whose download failed; net: the network operations of the
   start of sync() *)
DxLoc(st) == [queue |-> SortAsc(NotIn(src.table, IdsOf(st.table))), k |-> 1,
              skipped |-> <<>>, net |-> <<>>]

(* the network operations sync() makes before its loop, in their order: the
   repository is created when it does not exist, which the first run finds *)
StartOperations ==
    <<"repo_exists">>
    \o (IF second THEN <<>> ELSE <<"create_repo", "read_gitattributes", "write_gitattributes">>)
    \o <<"download_src_pages", "file_exists">>
    \o (IF store.exists THEN <<"download_dst_pages">> ELSE <<>>)

(* sync() up to its loop: the repository and the two tables, then
   assert shutil.which('yt-dlp') *)
DxStart ==
    /\ prog = "dx" /\ pc = "start"
    /\ loc' = [loc EXCEPT !.net = StartOperations]
    /\ pc' = IF src.yt_dlp THEN "loop" ELSE "raised"
    /\ UNCHANGED <<runVars, deployVars, ret, force, exit, now, records, exist_ids,
                   exist_groups, has_update>>

(* one iteration of `for item in df_src_pages`: yt-dlp fails and the item is
   skipped, or a check after the download raises, or the row is appended and
   _deploy(force=False) is called *)
DxItem ==
    /\ prog = "dx" /\ pc = "loop"
    /\ IF loc.k > Len(loc.queue)
       THEN /\ Finish("exhausted")
            /\ UNCHANGED <<loc, records, exist_ids>>
       ELSE \E outcome \in {"downloaded", "download_failed", "check_raised"} :
              CASE outcome = "download_failed" ->
                     /\ loc' = [loc EXCEPT !.k = @ + 1, !.skipped = Append(@, loc.queue[loc.k])]
                     /\ UNCHANGED <<pc, ret, force, exit, records, exist_ids>>
                [] outcome = "check_raised" ->
                     /\ pc' = "raised"
                     /\ UNCHANGED <<loc, ret, force, exit, records, exist_ids>>
                [] outcome = "downloaded" ->
                     /\ records' = Append(records, Row(loc.queue[loc.k]))
                     /\ exist_ids' = exist_ids \cup {loc.queue[loc.k]}
                     /\ loc' = [loc EXCEPT !.k = @ + 1]
                     /\ CallDeploy(FALSE, "loop")
                     /\ UNCHANGED exit
    /\ UNCHANGED <<runVars, deployVars, now, exist_groups, has_update>>

-----------------------------------------------------------------------------
(* A run of a table-to-table sync (pdb/db, memes/page, imgflip/db, yzk/dx) *)

InitDbProg(p) ==
    /\ prog = p
    /\ second = FALSE
    /\ exit1 = "none"
    /\ src \in IF p = "dx" THEN DxSources ELSE DbSources(p)
    /\ store = EmptyStore
    /\ now = 0
    /\ start_time = 0
    /\ Load(EmptyStore)
    /\ loc \in IF p = "dx" THEN {DxLoc(EmptyStore)} ELSE DbLocs(p, EmptyStore)
    /\ pc = IF p = "dx" THEN "start" ELSE "loop"
    /\ ret = "loop"

(* the second run of a table-to-table sync, on the store the first left *)
RestartDb ==
    /\ prog \in DbProgs \cup {"dx"}
    /\ pc \in {"done", "raised"}
    /\ ~second
    /\ UNCHANGED <<prog, now, src, store, start_time, exist_groups>>
    /\ second' = TRUE
    /\ exit1' = IF pc = "done" THEN exit ELSE "raised"
    /\ records' = store.table
    /\ exist_ids' = IdsOf(store.table)
    /\ loaded' = store.table
    /\ has_update' = FALSE
    /\ last_update' = None
    /\ total_count' = Len(store.table)
    /\ limiter' = None
    /\ uploads' = <<>>
    /\ force' = FALSE
    /\ exit' = "none"
    /\ loc' \in IF prog = "dx" THEN {DxLoc(store)} ELSE DbLocs(prog, store)
    /\ pc' = IF prog = "dx" THEN "start" ELSE "loop"
    /\ ret' = "loop"

InitDb == InitDbProg("pdbdb") \/ InitDbProg("page") \/ InitDbProg("imgflipdb") \/ InitDbProg("dx")
NextDb ==
    \/ BlockStart \/ WorkerStart \/ WorkerFetch \/ ParallelCallStart \/ ParallelCallFetch
    \/ WorkerLock \/ WorkerCommit \/ WorkerFinish \/ BlockPublish
    \/ DxStart \/ DxItem \/ Deploy
    \/ RestartDb
SpecDb == InitDb /\ [][NextDb]_vars

(* pdb/db alone, with the comments of the profiles varied *)
InitPdbDb ==
    /\ prog = "pdbdb"
    /\ second = FALSE
    /\ exit1 = "none"
    /\ src \in PdbDbSources
    /\ store = EmptyStore
    /\ now = 0
    /\ start_time = 0
    /\ Load(EmptyStore)
    /\ loc \in DbLocs("pdbdb", EmptyStore)
    /\ pc = "loop"
    /\ ret = "loop"
NextPdbDb ==
    \/ BlockStart \/ WorkerStart \/ WorkerFetch \/ WorkerLock \/ WorkerCommit
    \/ WorkerFinish \/ BlockPublish \/ RestartDb
SpecPdbDb == InitPdbDb /\ [][NextPdbDb]_vars

-----------------------------------------------------------------------------
(* imgflip/index.py.  d_records is the sequence `records`, in the order of
   insertion; exist_caption_urls is the ledger `exist_ids`. *)

Urls == {1, 2}           \* caption urls
TemplateIds == {3, 5}    \* the ids get_generator_info finds
NoValue == 0             \* alt_names, default_settings: None

(* listing: the caption urls iter_all_templates yields; id: the id of the
   template of each caption url *)
ImgflipIndexSources ==
    {[listing |-> l, id |-> f] : l \in SeqsUpTo(Urls, MaxTemplates), f \in [Urls -> TemplateIds]}

(* what get_generator_info can return for a caption url: the page has alt
   names or none, default settings or none; the value of a field is named by
   the caption url of the page *)
Infos(caption_url) ==
    {[id |-> src.id[caption_url], alt_names |-> a, default_settings |-> d] :
        a \in {NoValue, caption_url}, d \in {NoValue, caption_url}}

(* w: the state of the task of each template; v: the items fetched and not
   yet merged; inserts, fills: the merges that inserted a record, that filled
   a field *)
ImgflipIndexLoc == [w |-> [i \in 1..Len(src.listing) |-> "queued"], v |-> <<>>,
                    inserts |-> 0, fills |-> 0]

(* a worker of parallel_call is free *)
ParallelCallFree == Cardinality(Running) < max_workers

IndexOf(table, id) == CHOOSE k \in 1..Len(table) : table[k].id = id

MergeOverwrite(table, current_item) ==
    IF current_item.id \notin IdsOf(table)
    THEN [table |-> Append(table, current_item), inserted |-> TRUE, filled |-> FALSE]
    ELSE LET k == IndexOf(table, current_item.id)
         IN [table |-> [table EXCEPT ![k].alt_names = current_item.alt_names,
                                     ![k].default_settings = current_item.default_settings],
             inserted |-> FALSE, filled |-> TRUE]

(* the statements of _fn under the lock, before _deploy: the item is inserted
   when its id is not in d_records, else an empty alt_names or
   default_settings of the record is filled *)
Merge(table, current_item) ==
    IF current_item.id \notin IdsOf(table)
    THEN [table |-> Append(table, current_item), inserted |-> TRUE, filled |-> FALSE]
    ELSE LET k == IndexOf(table, current_item.id)
             fill_alt == table[k].alt_names = NoValue /\ current_item.alt_names # NoValue
             t1 == IF fill_alt
                   THEN [table EXCEPT ![k].alt_names = current_item.alt_names]
                   ELSE table
             fill_ds == t1[k].default_settings = NoValue /\ current_item.default_settings # NoValue
             t2 == IF fill_ds
                   THEN [t1 EXCEPT ![k].default_settings = current_item.default_settings]
                   ELSE t1
         IN [table |-> t2, inserted |-> FALSE, filled |-> fill_alt \/ fill_ds]

ixFrame == <<runVars, deployVars, exist_groups>>

(* parallel_call is running its tasks: between the steps of the tasks, or
   inside the _deploy a task has called *)
PoolRunning == pc = "pool" \/ (pc = "deploy" /\ ret = "pool")

LockNeverHeld == FALSE

(* `with lock:` of _fn is held by a task: the task that merged has called
   _deploy and _deploy has not returned *)
LockHeld == pc = "deploy" /\ ret = "pool"

(* _fn begins for the next template: the test of exist_caption_urls *)
ImgflipIndexTest ==
    /\ prog = "imgflipindex" /\ PoolRunning
    /\ ParallelCallFree
    /\ \E i \in 1..Len(loc.w) :
         /\ loc.w[i] = "queued"
         /\ \A j \in 1..(i - 1) : loc.w[j] # "queued"
         /\ loc' = [loc EXCEPT !.w[i] = IF src.listing[i] \in exist_ids
                                        THEN "skipped" ELSE "fetching"]
    /\ UNCHANGED <<ixFrame, pc, ret, force, exit, now, records, exist_ids, has_update>>

(* get_generator_info returns an item, or it raises (or returns None, and the
   merge raises) and the task ends *)
ImgflipIndexFetch ==
    /\ prog = "imgflipindex" /\ PoolRunning
    /\ \E i \in 1..Len(loc.w) :
         /\ loc.w[i] = "fetching"
         /\ \/ loc' = [loc EXCEPT !.w[i] = "failed"]
            \/ \E vitem \in Infos(src.listing[i]) :
                 loc' = [loc EXCEPT
                           !.w[i] = "fetched",
                           !.v = [j \in DOMAIN loc.v \cup {i} |->
                                     IF j = i THEN vitem ELSE loc.v[j]]]
    /\ UNCHANGED <<ixFrame, pc, ret, force, exit, now, records, exist_ids, has_update>>

(* with lock: the merge and _deploy(force=False) *)
ImgflipIndexCommit ==
    /\ prog = "imgflipindex" /\ PoolRunning /\ ~LockHeld
    /\ \E i \in 1..Len(loc.w) :
         /\ loc.w[i] = "fetched"
         /\ LET current_item == [id |-> loc.v[i].id,
                                 caption_url |-> src.listing[i],
                                 alt_names |-> loc.v[i].alt_names,
                                 default_settings |-> loc.v[i].default_settings]
                m == Merge(records, current_item)
            IN /\ records' = m.table
               /\ exist_ids' = IF m.inserted THEN exist_ids \cup {current_item.caption_url}
                               ELSE exist_ids
               /\ has_update' = (has_update \/ m.inserted \/ m.filled)
               /\ loc' = [loc EXCEPT
                             !.w[i] = "done",
                             !.v = [j \in DOMAIN loc.v \ {i} |-> loc.v[j]],
                             !.inserts = IF m.inserted THEN @ + 1 ELSE @,
                             !.fills = IF m.filled THEN @ + 1 ELSE @]
    /\ \E dt \in Dts : now' = now + dt
    /\ CallDeploy(FALSE, "pool")
    /\ UNCHANGED <<ixFrame, exit>>

(* parallel_call has returned: _deploy(force=True) *)
ImgflipIndexEnd ==
    /\ prog = "imgflipindex" /\ pc = "pool"
    /\ \A i \in 1..Len(loc.w) : loc.w[i] \in {"done", "skipped", "failed"}
    /\ Finish("exhausted")
    /\ UNCHANGED <<ixFrame, now, loc, records, exist_ids, has_update>>

InitImgflipIndex ==
    /\ prog = "imgflipindex"
    /\ second = FALSE
    /\ exit1 = "none"
    /\ src \in ImgflipIndexSources
    /\ store = EmptyStore
    /\ now = 0
    /\ start_time = 0
    /\ Load(EmptyStore)
    /\ loc = ImgflipIndexLoc
    /\ pc = "pool"
    /\ ret = "pool"

NextImgflipIndex ==
    ImgflipIndexTest \/ ImgflipIndexFetch \/ ImgflipIndexCommit \/ ImgflipIndexEnd \/ Deploy
SpecImgflipIndex == InitImgflipIndex /\ [][NextImgflipIndex]_vars

-----------------------------------------------------------------------------
(* pdb/profile.py: get_profile and get_comments, one call *)

Statuses == {200, 403, 404, 500}

RECURSIVE Pow2(_)
Pow2(k) == IF k = 0 THEN 1 ELSE 2 * Pow2(k - 1)

(* tries: the local of the function; statuses: the status codes of the
   responses so far; sleeps: the arguments of the time.sleep calls so far *)
RetryLoc == [tries |-> 0, statuses |-> <<>>, sleeps |-> <<>>]

RetriesOneLess(tries) == tries < src.max_retries

(* if tries <= max_retries *)
Retries(tries) == tries <= src.max_retries

retryFrame == <<runVars, deployVars, ret, force, exit, now, records, exist_ids,
                exist_groups, has_update>>

(* resp = session.get(...) *)
Request ==
    /\ prog \in {"get_profile", "get_comments"} /\ pc = "request"
    /\ \E status_code \in Statuses :
         loc' = [loc EXCEPT !.statuses = Append(@, status_code)]
    /\ pc' = "response"
    /\ UNCHANGED retryFrame

(* the statements after session.get, up to the next one or the end of the
   call *)
Response ==
    /\ prog \in {"get_profile", "get_comments"} /\ pc = "response"
    /\ LET status_code == loc.statuses[Len(loc.statuses)]
       IN IF status_code = 403
          THEN LET sleep_time == Pow2(loc.tries)
                   tries == loc.tries + 1
               IN IF Retries(tries)
                  THEN /\ loc' = [loc EXCEPT !.tries = tries,
                                             !.sleeps = Append(@, sleep_time)]
                       /\ pc' = "request"
                  ELSE \* resp.raise_for_status() raises for 403
                       /\ loc' = [loc EXCEPT !.tries = tries]
                       /\ pc' = "raised"
          ELSE /\ pc' = IF status_code >= 400 THEN "raised" ELSE "returned"
               /\ UNCHANGED loc
    /\ UNCHANGED retryFrame

InitRetry ==
    /\ prog \in {"get_profile", "get_comments"}
    /\ second = FALSE
    /\ exit1 = "none"
    /\ src \in {[max_retries |-> m] : m \in 0..MaxRetries}
    /\ store = EmptyStore
    /\ now = 0
    /\ start_time = 0
    /\ Load(EmptyStore)
    /\ loc = RetryLoc
    /\ pc = "request"
    /\ ret = "request"

NextRetry == Request \/ Response
SpecRetry == InitRetry /\ [][NextRetry]_vars

(* a call that is running goes on running: session.get answers, the sleep
   ends *)
SpecRetryLive == SpecRetry /\ WF_vars(NextRetry)

-----------------------------------------------------------------------------
(* qmeme/index.py: find_max_page_count; imgflip/page.py: iter_all_templates *)

MaxPage == 6

(* pages: the page numbers at which the site returns a list that is not
   empty *)
SearchSources == {[pages |-> p] : p \in SUBSET (1..MaxPage)}

(* get_meme_from_page(base_url, page_no) / list_template_page(page_id) as a
   condition *)
PageHasItems(page_no) == page_no \in src.pages

(* l, r: the locals; probed: the pages requested by the search; i, listed:
   the loop over range(1, max_page + 1) of iter_all_templates and the pages
   it has requested *)
SearchLoc == [l |-> 1, r |-> 2, probed |-> {}, i |-> 1, listed |-> <<>>]

MidFloor(l, r) == (l + r) \div 2

(* m = (l + r + 1) // 2 *)
Mid(l, r) == (l + r + 1) \div 2

(* while <page r has items>: l <<= 1; r <<= 1 *)
SearchDouble ==
    /\ prog \in {"find_max_page_count", "iter_all_templates"} /\ pc = "double"
    /\ IF PageHasItems(loc.r)
       THEN /\ loc' = [loc EXCEPT !.l = 2 * @, !.r = 2 * @, !.probed = @ \cup {loc.r}]
            /\ pc' = "double"
       ELSE /\ loc' = [loc EXCEPT !.probed = @ \cup {loc.r}]
            /\ pc' = "bisect"
    /\ UNCHANGED retryFrame

(* while l < r: one probe of m; then return l (find_max_page_count) or
   max_page = l (iter_all_templates) *)
SearchBisect ==
    /\ prog \in {"find_max_page_count", "iter_all_templates"} /\ pc = "bisect"
    /\ IF loc.l < loc.r
       THEN LET m == Mid(loc.l, loc.r)
            IN /\ loc' = IF PageHasItems(m)
                         THEN [loc EXCEPT !.l = m, !.probed = @ \cup {m}]
                         ELSE [loc EXCEPT !.r = m - 1, !.probed = @ \cup {m}]
               /\ pc' = "bisect"
       ELSE /\ pc' = IF prog = "find_max_page_count" THEN "returned" ELSE "listing"
            /\ UNCHANGED loc
    /\ UNCHANGED retryFrame

(* for i in range(1, max_page + 1): yield from list_template_page(i) *)
TemplatesPage ==
    /\ prog = "iter_all_templates" /\ pc = "listing"
    /\ IF loc.i <= loc.l
       THEN /\ loc' = [loc EXCEPT !.i = @ + 1, !.listed = Append(@, loc.i)]
            /\ pc' = "listing"
       ELSE /\ pc' = "returned"
            /\ UNCHANGED loc
    /\ UNCHANGED retryFrame

InitSearch ==
    /\ prog \in {"find_max_page_count", "iter_all_templates"}
    /\ second = FALSE
    /\ exit1 = "none"
    /\ src \in SearchSources
    /\ store = EmptyStore
    /\ now = 0
    /\ start_time = 0
    /\ Load(EmptyStore)
    /\ loc = SearchLoc
    /\ pc = "double"
    /\ ret = "double"

NextSearch == SearchDouble \/ SearchBisect \/ TemplatesPage
SpecSearch == InitSearch /\ [][NextSearch]_vars

(* a running search goes on running: each request is answered *)
SpecSearchLive == SpecSearch /\ WF_vars(NextSearch)

-----------------------------------------------------------------------------
(* Properties *)

Distinct(table) == \A i, j \in 1..Len(table) : i # j => table[i].id # table[j].id

StrictlyDescending(table) == \A i \in 1..(Len(table) - 1) : table[i].id > table[i + 1].id

Count(table, i) == Cardinality({k \in 1..Len(table) : table[k].id = i})

(* the same rows, whatever their order *)
SameRows(a, b) ==
    /\ Len(a) = Len(b)
    /\ \A i \in IdsOf(a) \cup IdsOf(b) : Count(a, i) = Count(b, i)

LastUpload == uploads[Len(uploads)]

(* the uploads of the run that succeeded *)
Succeeded(ups) == {k \in 1..Len(ups) : ups[k].ok}

\* C1: a second run started from the output of a first run that ended by
\* source exhaustion, on the unchanged source, admits no record and uploads
\* nothing.
C1_SecondRunIdle ==
    (second /\ exit1 = "exhausted") => (records = loaded /\ uploads = <<>>)

\* C2: in memes/index, pdb/index and qmeme/index every table handed to the
\* upload has no repeated id, whatever ids the source repeats and whatever
\* table was loaded.
C2_NoDuplicateIds ==
    prog \in {"memes", "pdb", "qmeme"} =>
        \A k \in 1..Len(uploads) : Distinct(uploads[k].table)

(* a second run that loaded a table, saw the source's ids again and
   uploaded a longer table *)
C2_Witness ==
    /\ prog \in {"memes", "pdb", "qmeme"}
    /\ second
    /\ loaded # <<>>
    /\ uploads # <<>>
    /\ Len(LastUpload.table) > Len(loaded)

\* C3: on an empty destination the source 5, 3, 5, 7 leaves the accumulator
\* with the records 5, 3, 7 in that order, the ledger {3, 5, 7} and the
\* published table 7, 5, 3.
C3_Scenario ==
    (prog = "memes" /\ ~second /\ src.feed = <<5, 3, 5, 7>>
        /\ pc = "done" /\ exit = "exhausted") =>
            /\ records = <<Row(5), Row(3), Row(7)>>
            /\ exist_ids = {3, 5, 7}
            /\ store.exists
            /\ store.table = <<Row(7), Row(5), Row(3)>>

C3_Witness ==
    /\ prog = "memes" /\ ~second /\ src.feed = <<5, 3, 5, 7>>
    /\ pc = "done" /\ exit = "exhausted"
    /\ uploads # <<>>

\* C4: every uploaded table is strictly descending by id: each row's id is
\* greater than the id of the row below it.
C4_StrictlyDescending ==
    \A k \in 1..Len(uploads) : StrictlyDescending(uploads[k].table)

\* C5: when the source is exhausted while an update is pending and the final
\* forced _deploy returns, it has uploaded, and the table in the store holds
\* exactly the records of the accumulator, however short the time since the
\* previous successful flush.
C5_ForcedFlush ==
    [][(pc = "deploy" /\ force /\ exit = "exhausted" /\ has_update /\ pc' = "done") =>
            /\ Len(uploads') = Len(uploads) + 1
            /\ store'.exists
            /\ SameRows(store'.table, records)]_vars

(* the final forced flush came less than deploy_span after the previous
   successful flush *)
C5_Witness ==
    /\ pc = "done" /\ exit = "exhausted"
    /\ Len(uploads) >= 2
    /\ LastUpload.force /\ LastUpload.ok
    /\ uploads[Len(uploads) - 1].ok
    /\ LastUpload.called < uploads[Len(uploads) - 1].end + deploy_span
    /\ SameRows(store.table, records)

C7_TimeBudget ==
    [][(prog = "memes" /\ start_time + max_time_limit < now /\ second' = second) =>
            /\ records' = records /\ exist_ids' = exist_ids
            /\ ~(pc = "loop" /\ pc' = "items")
            /\ (pc = "items" => pc' = "deploy" /\ loc' = loc)
            /\ (pc = "loop" => pc' = "deploy" /\ force' /\ ret' = "done")
            /\ (pc = "deploy" /\ force /\ has_update => Len(uploads') = Len(uploads) + 1)]_vars

(* the run left the loop on the time budget and its forced flush uploaded
   less than deploy_span after the previous flush *)
C7_Witness ==
    /\ prog = "memes" /\ pc = "done" /\ exit = "time"
    /\ Len(uploads) >= 2
    /\ LastUpload.force
    /\ LastUpload.called > start_time + max_time_limit
    /\ LastUpload.called < uploads[Len(uploads) - 1].end + deploy_span

\* C8: in qmeme/index, once start_time + max_time_limit is in the past, no
\* further item is pulled from the source and no further record is admitted.
C8_TimeBudget ==
    [][(prog = "qmeme" /\ start_time + max_time_limit < now /\ second' = second) =>
            /\ records' = records
            /\ loc'.k <= loc.k]_vars

\* C9: the starts of two uploads of a run are at least upload_time_span
\* apart; a publish that comes earlier waits until the span has passed and
\* then uploads.
C9_RateLimit ==
    [][(pc = "deploy" /\ has_update /\ uploads # <<>>
            /\ (force \/ last_update + deploy_span <= now)) =>
            /\ Len(uploads') = Len(uploads) + 1
            /\ uploads'[Len(uploads')].called = now
            /\ uploads'[Len(uploads')].at >= LastUpload.at + upload_time_span
            /\ uploads'[Len(uploads')].at =
                  Max(now, LastUpload.at + upload_time_span)]_vars

(* an upload that had to wait for the limiter *)
C9_Witness ==
    \E k \in 1..Len(uploads) : uploads[k].at > uploads[k].called

\* C10: no upload occurs when no record was admitted since the last publish
\* (or since the load): every upload adds at least one record.
C10_NoEmptyPublish ==
    \A k \in 1..Len(uploads) : uploads[k].n > 0

\* C11: when the upload inside _deploy raises, the exception leaves _deploy
\* and the run without a second attempt, and the accumulator, the ledger,
\* has_update (true), _last_update, _total_count and the store are as they
\* were before the call.
C11_PublishFailure ==
    [][(pc = "deploy" /\ Len(uploads') = Len(uploads) + 1
            /\ ~uploads'[Len(uploads')].ok) =>
            /\ pc' = "raised"
            /\ records' = records /\ exist_ids' = exist_ids
            /\ has_update /\ has_update'
            /\ last_update' = last_update /\ total_count' = total_count
            /\ store' = store
            /\ \A k \in 1..Len(uploads) : uploads[k].ok]_vars

(* an upload failed after an earlier one of the run had succeeded *)
C11_Witness ==
    /\ pc = "raised"
    /\ Len(uploads) >= 2
    /\ ~LastUpload.ok
    /\ has_update
    /\ last_update = uploads[Len(uploads) - 1].end
    /\ Len(records) > total_count

\* C12: within a run the ledger never loses an element, and the ids of
\* every published table include the ids of the table loaded at the start of
\* the run and the ids of every table published earlier in the run.
C12_Monotone ==
    [][second' = second =>
            /\ exist_ids \subseteq exist_ids'
            /\ \A k \in 1..Len(uploads') :
                 /\ IdsOf(loaded') \subseteq IdsOf(uploads'[k].table)
                 /\ \A j \in 1..(k - 1) :
                      IdsOf(uploads'[j].table) \subseteq IdsOf(uploads'[k].table)]_vars

(* a run that loaded a table and published two growing tables *)
C12_Witness ==
    /\ Len(uploads) >= 2
    /\ Len(uploads[2].table) > Len(uploads[1].table)
    /\ loaded # <<>>
    /\ Len(uploads[1].table) > Len(loaded)

\* C14: in memes/index, pdb/index, qmeme/index and yzk/xl the step that
\* takes a candidate whose id is in the ledger leaves the accumulator, the
\* ledger and has_update unchanged, and in yzk/xl it does not call
\* extract_page_info.
C14_SkipDuplicate ==
    [][/\ (prog = "memes" /\ pc = "items" /\ loc.k <= Len(loc.page_items)
              /\ ~(start_time + max_time_limit < now)
              /\ loc.page_items[loc.k] \in exist_ids)
          => UNCHANGED <<records, exist_ids, has_update>>
       /\ (prog = "pdb" /\ pc = "items" /\ loc.k <= Len(loc.results)
              /\ loc.results[loc.k] \in exist_ids)
          => UNCHANGED <<records, exist_ids, has_update>>
       /\ (prog = "qmeme" /\ pc = "items" /\ loc.k <= Len(src.groups[loc.g].items)
              /\ src.groups[loc.g].items[loc.k] \in exist_ids)
          => UNCHANGED <<records, exist_ids, has_update>>
       /\ (prog = "xl" /\ pc = "loop" /\ loc.k <= Len(src.listing)
              /\ src.listing[loc.k] \in exist_ids)
          => /\ UNCHANGED <<records, exist_ids, has_update>>
             /\ loc'.converted = loc.converted]_vars

(* yzk/xl has passed a listing entry without converting its page *)
C14_Witness ==
    /\ prog = "xl"
    /\ loc.converted < loc.k - 1
    /\ has_update

RECURSIVE Flatten(_)
Flatten(ss) == IF ss = <<>> THEN <<>> ELSE Head(ss) \o Flatten(Tail(ss))

IsPrefix(a, b) == Len(a) <= Len(b) /\ a = SubSeq(b, 1, Len(a))

DistinctIds(ids) == \A i, j \in 1..Len(ids) : i # j => ids[i] # ids[j]

\* C13: in imgflip/db, pdb/db and memes/page the n candidates of a run are cut
\* into ceil(n/b) blocks for batch_size b: every block started has b rows but
\* the last of the ceil(n/b), which has n mod b rows when that is not zero; the
\* blocks started so far are, in order, a prefix of the candidates, so a
\* candidate is in one block only; and the run ends after ceil(n/b) blocks.
C13_BatchBoundary ==
    prog \in DbProgs =>
        LET n == Len(loc.queue)
            b == src.batch_size
            last == (n + b - 1) \div b
        IN /\ Len(loc.passes) <= last
           /\ pc = "done" => Len(loc.passes) = last
           /\ \A j \in 1..Len(loc.passes) :
                 Len(loc.passes[j]) = IF j = last /\ n % b # 0 THEN n % b ELSE b
           /\ IsPrefix(Flatten(loc.passes), loc.queue)
           /\ pc = "done" => Flatten(loc.passes) = loc.queue

\* a run of three new candidates with distinct ids and batch_size 2 has ended
\* after the blocks of 2 and 1 rows, with every candidate admitted
C13_Witness ==
    /\ prog \in DbProgs /\ pc = "done" /\ ~second
    /\ Len(loc.queue) = 3 /\ DistinctIds(loc.queue) /\ src.batch_size = 2
    /\ Len(loc.passes) = 2 /\ Len(loc.passes[1]) = 2 /\ Len(loc.passes[2]) = 1
    /\ IdsOf(store.table) = {loc.queue[k] : k \in 1..3}
    /\ Len(uploads) = 2

\* C15: in pdb/db a task that starts its fetch (get_profile, get_comments) is
\* the task of a row whose id is not in exist_ids at that moment.
C15_SkipDuplicate ==
    [][(prog = "pdbdb" /\ pc = "pool" /\ pc' = "pool") =>
          \A i \in 1..Len(loc.w) :
             (loc.w[i] = "queued" /\ loc'.w[i] = "fetching")
             => loc.block[i] \notin exist_ids]_vars

\* C16: when _fn of imgflip/index merges a fetched item whose id is already in
\* d_records, no record is added or removed and no other record changes; of
\* the record of that id only alt_names and default_settings can change, each
\* only from empty to the non-empty value of the item; and has_update is
\* set by a merge exactly when it inserted a record or filled a field.
C16_MergePolicy ==
    [][(prog = "imgflipindex" /\ pc = "pool") =>
          \A i \in 1..Len(loc.w) :
             (loc.w[i] = "fetched" /\ loc'.w[i] = "done") =>
                LET item == loc.v[i]
                IN IF item.id \in IdsOf(records)
                   THEN LET k == IndexOf(records, item.id)
                            old == records[k]
                            new == records'[k]
                            fill_alt == old.alt_names = NoValue /\ item.alt_names # NoValue
                            fill_ds == old.default_settings = NoValue /\ item.default_settings # NoValue
                        IN /\ Len(records') = Len(records)
                           /\ \A j \in 1..Len(records) : j # k => records'[j] = records[j]
                           /\ new.id = old.id /\ new.caption_url = old.caption_url
                           /\ new.alt_names = IF fill_alt THEN item.alt_names ELSE old.alt_names
                           /\ new.default_settings = IF fill_ds THEN item.default_settings
                                                     ELSE old.default_settings
                           /\ exist_ids' = exist_ids
                           /\ has_update' = (has_update \/ fill_alt \/ fill_ds)
                   ELSE /\ Len(records') = Len(records) + 1
                        /\ \A j \in 1..Len(records) : records'[j] = records[j]
                        /\ records'[Len(records')].id = item.id
                        /\ has_update']_vars

\* the record was published with alt_names and without default_settings; a
\* later merge of an item of the same id filled default_settings
C16_Witness ==
    /\ prog = "imgflipindex" /\ loc.fills >= 1 /\ loc.inserts = 1 /\ Len(records) = 1
    /\ Len(loc.w) = 2 /\ loc.w[1] = "done" /\ loc.w[2] = "done"
    /\ records[1].alt_names # NoValue /\ records[1].default_settings # NoValue
    /\ records[1].alt_names # records[1].default_settings
    /\ has_update /\ uploads # <<>> /\ LastUpload.ok
    /\ LastUpload.table[1].alt_names # NoValue
    /\ LastUpload.table[1].default_settings = NoValue

All403(statuses) == \A k \in 1..Len(statuses) : statuses[k] = 403

\* C17: in a call of get_profile or get_comments the k-th sleep is of
\* 2^(k-1) seconds and there is one sleep for each 403 answered by a retry;
\* no more than max_retries + 1 requests are made; the call raises on a 403
\* only after max_retries + 1 requests that all got 403, with max_retries
\* sleeps; it raises on another error status at the request that got it, with
\* no sleep after it; it returns at the first response that is not a 403 and
\* not an error; and it comes to an end.
C17_BoundedRetry ==
    /\ [](LET n == Len(loc.statuses)
              last == loc.statuses[n]
          IN /\ n <= src.max_retries + 1
             /\ \A k \in 1..Len(loc.sleeps) : loc.sleeps[k] = Pow2(k - 1)
             /\ n > 0 => All403(SubSeq(loc.statuses, 1, n - 1))
             /\ pc = "request" => Len(loc.sleeps) = n
             /\ pc = "raised" =>
                  /\ last >= 400
                  /\ last = 403 => n = src.max_retries + 1 /\ Len(loc.sleeps) = src.max_retries
                  /\ last # 403 => Len(loc.sleeps) = n - 1
             /\ pc = "returned" => last = 200 /\ Len(loc.sleeps) = n - 1)
    /\ <>(pc \in {"returned", "raised"})

\* get_profile with max_retries = 5 has raised after six 403 responses
C17_Witness ==
    /\ prog = "get_profile" /\ pc = "raised" /\ src.max_retries = 5
    /\ loc.statuses = <<403, 403, 403, 403, 403, 403>>
    /\ loc.sleeps = <<1, 2, 4, 8, 16>>

\* the id of the record the task of row i of the block appends
RecordId(i) == IF prog = "pdbdb" THEN src.final[loc.block[i]] ELSE loc.block[i]

C19_CommitExclusion ==
    [][(prog \in DbProgs /\ pc = "pool" /\ pc' = "pool") =>
          /\ (\/ records' # records \/ exist_ids' # exist_ids
              \/ has_update' # has_update \/ loc'.tar # loc.tar) =>
                /\ loc.lock # 0
                /\ loc'.w[loc.lock] # loc.w[loc.lock]
          /\ Cardinality({i \in 1..Len(loc'.w) : loc'.w[i] = "commit"}) <= 1]_vars

\* the tasks submitted and not finished
Unfinished == {i \in 1..Len(loc.w) : loc.w[i] \notin {"done", "failed"}}

\* C20: in pdb/db and memes/page, the step that starts a block, and the step
\* that leaves the pool of a block to publish it or to go on to the next, are
\* taken when every task of the running block is done or failed; the tasks
\* submitted are those of the rows of the running block, so no more than
\* batch_size tasks are submitted and not finished.
C20_BlocksSequential ==
    [][(prog = "pdbdb" \/ prog = "page") =>
          /\ (pc = "pool" /\ (pc' # "pool" \/ uploads' # uploads \/ loc'.passes # loc.passes)) =>
                \A i \in 1..Len(loc.w) : loc.w[i] \in {"done", "failed"}
          /\ (pc = "loop" /\ pc' = "pool") =>
                /\ \A i \in 1..Len(loc.w) : loc.w[i] \in {"done", "failed"}
                /\ \A i \in 1..Len(loc'.w) : loc'.w[i] = "queued"
          /\ Len(loc'.w) = Len(loc'.block)
          /\ Cardinality(Unfinished') <= src.batch_size]_vars

\* the second block of a run runs after the first, of two rows, was published
C20_Witness ==
    /\ prog \in {"pdbdb", "page"} /\ pc = "pool" /\ ~second
    /\ Len(loc.passes) = 2 /\ Len(loc.passes[1]) = 2
    /\ Len(uploads) = 1 /\ Len(uploads[1].table) = 2
    /\ \E i \in 1..Len(loc.w) : loc.w[i] = "fetching"

\* the row the task of position i of block j appends
RowOf(j, i) ==
    CASE prog = "pdbdb" -> Row(src.final[loc.passes[j][i]])
      [] prog = "imgflipdb" ->
            [id |-> loc.passes[j][i],
             volume_file |-> VolumeFile(loc.max_volume_id - Len(loc.passes) + j)]
      [] OTHER -> Row(loc.passes[j][i])

\* the rows of the table `acc` and of the fetched rows of the blocks j.. from
\* position i on, taken in the order of the positions
RECURSIVE InOrder(_, _, _)
InOrder(acc, j, i) ==
    IF j > Len(loc.passes) THEN acc
    ELSE IF i > Len(loc.passes[j]) THEN InOrder(acc, j + 1, 1)
    ELSE IF i \in loc.fetched[j] /\ (prog = "pdbdb" => RowOf(j, i).id \notin IdsOf(acc))
         THEN InOrder(Append(acc, RowOf(j, i)), j, i + 1)
         ELSE InOrder(acc, j, i + 1)

\* C21: in imgflip/db, pdb/db and memes/page the table uploaded after a block
\* is the loaded table and the rows of the tasks whose fetch returned, sorted
\* by id, as if the tasks had committed in the order of their positions in
\* the blocks: the order in which the workers finish does not show in it.
C21_Determinism ==
    [][(prog \in DbProgs /\ pc = "pool" /\ Len(uploads') = Len(uploads) + 1) =>
          uploads'[Len(uploads')].table = SortDesc(InOrder(loaded, 1, 1))]_vars

\* the second task of a block committed before the first, and the block was
\* published
C21_Witness ==
    /\ prog \in DbProgs /\ pc = "loop" /\ uploads # <<>> /\ LastUpload.ok
    /\ Len(loc.passes) = 1 /\ Len(records) = 2
    /\ records[1].id = RowOf(1, 2).id /\ records[2].id = RowOf(1, 1).id
    /\ records[1].id # records[2].id
    /\ LastUpload.table # records

Volumes(archives) == {a.volume : a \in archives}

\* the volume id a volume_file names
VolumeId(file) ==
    file.dir * VolumeSize + file.name[1] * 100 + file.name[2] * 10 + file.name[3]

BlockRecords ==
    LET rows == SelectSeq(records, LAMBDA r : r.volume_file = VolumeFile(loc.max_volume_id))
    IN [k \in 1..Len(rows) |-> rows[k].id]

\* C23: in imgflip/db, whenever no task of the running block is inside its
\* commit, and so when all of them have finished, the records whose
\* volume_file names the archive of the block are, one for one and in the
\* same order, the members of that archive, and new_image_count is their
\* number, which is the number of tasks that are done.
C23_ArchiveTable ==
    (prog = "imgflipdb" /\ pc = "pool" /\ \A i \in 1..Len(loc.w) : loc.w[i] # "commit") =>
        /\ BlockRecords = loc.tar
        /\ loc.new_image_count = Len(loc.tar)
        /\ loc.new_image_count = Cardinality({i \in 1..Len(loc.w) : loc.w[i] = "done"})

\* the two tasks of a block of a second run have finished, one done and one
\* failed, with the record of the first run in the accumulator
C23_Witness ==
    /\ prog = "imgflipdb" /\ pc = "pool" /\ second /\ Len(loaded) = 1
    /\ Len(loc.w) = 2 /\ loc.w[1] = "done" /\ loc.w[2] = "failed"
    /\ Len(records) = 2 /\ loc.tar = <<loc.block[1]>>

\* C24: when a run of yzk/dx has ended after the final _deploy(force=True)
\* and no upload of the run failed, every record of the accumulator is in the
\* table of the store; and every record appended sets has_update.
C24_DxForcedFlush ==
    (prog = "dx" /\ pc = "done" /\ \A k \in 1..Len(uploads) : uploads[k].ok) =>
        /\ IdsOf(records) \subseteq IdsOf(store.table)
        /\ Len(records) > Len(loaded) => uploads # <<>>

\* C25: no table uploaded by yzk/xl, and no table in its store, has two rows
\* with the same id.
C25_XlNoDuplicateIds ==
    prog = "xl" =>
        /\ \A k \in 1..Len(uploads) : Distinct(uploads[k].table)
        /\ Distinct(store.table)

\* C26: no table uploaded by memes/page, imgflip/db or yzk/dx has two rows
\* with the same id.
C26_DbNoDuplicateIds ==
    prog \in {"page", "imgflipdb", "dx"} =>
        \A k \in 1..Len(uploads) : Distinct(uploads[k].table)

\* C27: a run of yzk/dx that fails because yt-dlp is missing has made no
\* network operation.
C27_DxConfigFirst ==
    (prog = "dx" /\ ~src.yt_dlp /\ pc = "raised") => loc.net = <<>>

(* every title of groups names a group of the source all of whose items have
   their ids in table: the group that was walked is the first of its title *)
Walked(groups, table) ==
    \A title \in groups :
        \E g \in 1..Len(src.groups) :
            /\ src.groups[g].title = title
            /\ \A h \in 1..(g - 1) : src.groups[h].title # title
            /\ \A k \in 1..Len(src.groups[g].items) :
                   src.groups[g].items[k] \in IdsOf(table)

\* C28: in qmeme/index every upload carries exist_groups and the table
\* together, the published pair is the pair of one upload, and every group
\* listed (in memory, in an upload, in the repository) has had its whole walk
\* done, all its items being in the table beside it; the group being walked
\* is not listed.
C28_MetaTableAtomic ==
    prog = "qmeme" =>
        /\ Walked(exist_groups, records)
        /\ \A k \in 1..Len(uploads) : Walked(uploads[k].groups, uploads[k].table)
        /\ Walked(store.groups, store.table)
        /\ \A k \in Succeeded(uploads) :
               (\A j \in Succeeded(uploads) : j <= k) =>
                   /\ store.table = uploads[k].table
                   /\ store.groups = uploads[k].groups
        /\ pc = "items" => /\ src.groups[loc.g].title \notin exist_groups
                           /\ src.groups[loc.g].title \notin store.groups

C28_Witness ==
    /\ prog = "qmeme" /\ pc = "items" /\ loc.g = 2
    /\ loc.k = 2 /\ Len(src.groups[2].items) = 2
    /\ src.groups[1].title # src.groups[2].title
    /\ uploads # <<>> /\ LastUpload.ok
    /\ store.groups = {src.groups[1].title}
    /\ src.groups[2].items[1] \in IdsOf(store.table)
    /\ src.groups[2].items[2] \notin IdsOf(store.table)

\* C29: in the table-to-table syncs, whenever no worker is inside its commit,
\* the ledger exist_ids is the set of the ids of the records of the
\* accumulator.
C29_LedgerTracksAccumulator ==
    (prog = "dx" \/ (prog \in DbProgs /\ \A i \in 1..Len(loc.w) : loc.w[i] # "commit"))
        => exist_ids = IdsOf(records)

(* the rows of table that are not rows of published: the items added or
   changed since published was written *)
Changed(table, published) ==
    {k \in 1..Len(table) : \A j \in 1..Len(published) : published[j] # table[k]}

\* C30: the number N of the message of an upload of imgflip/index is the
\* number of the items admitted or updated in place since the last successful
\* publish of the run, or since the load when there was none.
C30_PublishCount ==
    [][(prog = "imgflipindex" /\ Len(uploads') = Len(uploads) + 1) =>
          LET upload == uploads'[Len(uploads')]
          IN upload.n = Cardinality(Changed(upload.table, store.table))]_vars

(* pages 1..N have items and no page above N has *)
Monotone == \E N \in 0..MaxPage : src.pages = 1..N

\* C31: when the pages with items are 1..N, find_max_page_count returns N
\* (1 when N = 0) and iter_all_templates then lists the pages 1..max_page in
\* order; the search never requests page 1; and the search comes to an end.
C31_MaxPageSearch ==
    /\ [](/\ 1 \notin loc.probed
          /\ (Monotone /\ pc \in {"listing", "returned"}) =>
                LET N == Cardinality(src.pages)
                IN loc.l = IF N = 0 THEN 1 ELSE N
          /\ (Monotone /\ pc = "returned" /\ prog = "iter_all_templates") =>
                loc.listed = [k \in 1..loc.l |-> k])
    /\ <>(pc = "returned")

\* five pages: 2 and 4 are found with items, 8 without, then 6 without and 5
\* with
C31_Witness ==
    /\ prog = "find_max_page_count" /\ pc = "returned" /\ src.pages = 1..5
    /\ loc.l = 5 /\ loc.probed = {2, 4, 8, 6, 5}

\* C32: in pdb/index, memes/index, qmeme/index and yzk/xl a step of a run
\* leaves every record of the accumulator as it is and in its place (records
\* are only appended), and in pdb/index a profile yielded under a pair of
\* another type than the one its record carries leaves the accumulator
\* unchanged.
C32_FirstAdmissionWins ==
    [][((prog = "pdb" \/ prog = "memes" \/ prog = "qmeme" \/ prog = "xl")
           /\ second' = second) =>
          /\ IsPrefix(records, records')
          /\ (prog = "pdb" /\ pc = "items" /\ loc.k <= Len(loc.results)
                 /\ loc.results[loc.k] \in IdsOf(records))
             => records' = records]_vars

\* profile 3 was admitted under the first pair and yielded again under the
\* second: its record still carries the first type
C32_Witness ==
    /\ prog = "pdb" /\ pc = "items" /\ loc.g = 2 /\ loc.k = 2
    /\ loc.results[1] = 3 /\ loc.has_new_item
    /\ \E k \in 1..Len(records) : records[k] = [id |-> 3, mbti_typeid |-> TypeId(1)]
    /\ \A k \in 1..Len(records) : records[k].id = 3 => records[k].mbti_typeid = TypeId(1)

\* C33: an invocation of iter_ptx_from_cursor yields an id once at most: an
\* item whose id the invocation has yielded before is passed over.
C33_YieldsOnce ==
    [][(prog = "pdb" /\ pc = "items" /\ loc.k <= Len(loc.results)
           /\ ToInt(Raw(loc.results[loc.k], src.rawStr)) \in loc.exist_ids) =>
          (pc' = "items" /\ loc'.has_new_item = loc.has_new_item)]_vars

Occurrences(tag_list, tag) == Cardinality({i \in 1..Len(tag_list) : tag_list[i] = tag})

RECURSIVE OccurrencesIn(_, _)
OccurrencesIn(tag_lists, tag) ==
    IF tag_lists = <<>> THEN 0
    ELSE Occurrences(Head(tag_lists), tag) + OccurrencesIn(Tail(tag_lists), tag)

\* C36: in a run of memes/index on an empty destination the tag table has a
\* row for each tag of the tag lists of the admitted records and for no other
\* tag, the count of a tag is the number of its occurrences in these lists,
\* and the step that passes over a candidate whose id is in the ledger
\* leaves the tag table as it is.
C36_TagCounts ==
    [][(prog = "memes" /\ ~second /\ ~second') =>
          /\ Len(loc'.tag_lists) = Len(records')
          /\ DOMAIN loc'.d_tags =
                {tag \in Tags : OccurrencesIn(loc'.tag_lists, tag) > 0}
          /\ \A tag \in DOMAIN loc'.d_tags :
                loc'.d_tags[tag] = OccurrencesIn(loc'.tag_lists, tag)
          /\ (pc = "items" /\ loc.k <= Len(loc.page_items) /\ ~LimitReached
                 /\ loc.page_items[loc.k] \in exist_ids)
             => loc'.d_tags = loc.d_tags]_vars

\* the second candidate of id 3 came with other tags than the first and was
\* passed over: the table counts the tags of the first, y twice
C36_Witness ==
    /\ prog = "memes" /\ ~second /\ pc = "done"
    /\ src.feed = <<3, 3>> /\ src.tags = <<<<"y", "y">>, <<"x">>>>
    /\ loc.tag_lists = <<<<"y", "y">>>>
    /\ DOMAIN loc.d_tags = {"y"} /\ loc.d_tags["y"] = 2
    /\ store.tags = loc.d_tags

\* C37: in imgflip/index _deploy is entered by the task that has merged and
\* holds the lock, or by sync() once every task has ended; while a call of
\* _deploy is pending no task merges (the records and the ledger stay as
\* they are and has_update is not set); the uploads of a run do not overlap;
\* and has_update is cleared only by a successful upload of a table that
\* holds every record as it is then.
C37_SerializedDeploys ==
    [][prog = "imgflipindex" =>
          /\ pc = "deploy" =>
                /\ records' = records /\ exist_ids' = exist_ids
                /\ has_update' => has_update
                /\ \A i \in 1..Len(loc.w) : loc'.w[i] # loc.w[i] => loc'.w[i] # "done"
          /\ (pc # "deploy" /\ pc' = "deploy") =>
                \/ /\ ret' = "pool" /\ ~force'
                   /\ \E i \in 1..Len(loc.w) : loc.w[i] = "fetched" /\ loc'.w[i] = "done"
                \/ /\ ret' = "done" /\ force'
                   /\ \A i \in 1..Len(loc.w) : loc.w[i] \in {"done", "skipped", "failed"}
          /\ (has_update /\ ~has_update') =>
                /\ pc = "deploy"
                /\ Len(uploads') = Len(uploads) + 1 /\ uploads'[Len(uploads')].ok
                /\ store'.table = SortDesc(records')
          /\ \A i, j \in 1..Len(uploads') : i < j => uploads'[i].end <= uploads'[j].at]_vars

\* a task has merged and holds the lock inside the _deploy it called while
\* the other task has fetched its item and waits to merge it
C37_Witness ==
    /\ prog = "imgflipindex" /\ LockHeld /\ has_update /\ ~force
    /\ Len(records) = 1 /\ Len(loc.w) = 2
    /\ \E i \in 1..Len(loc.w) : loc.w[i] = "done"
    /\ \E i \in 1..Len(loc.w) : loc.w[i] = "fetched"

\* C38: in pdb/db no two rows of the comments table, in memory or published,
\* have the same id; the comment rows grow only in the step that appends the
\* record of a profile whose returned id was not in the ledger, and only by
\* comments fetched for that profile; when the returned id is already in the
\* ledger the task ends and the records, the ledger, the comment rows and
\* their ids, has_update and the store stay as they are.
C38_CommentsWithNewProfile ==
    [][prog = "pdbdb" =>
          /\ Distinct(loc'.comments) /\ Distinct(store'.comments)
          /\ (loc'.comments # loc.comments /\ second' = second) =>
                \E i \in 1..Len(loc.w) :
                   /\ loc.w[i] = "locked" /\ loc'.w[i] = "commit"
                   /\ src.final[loc.block[i]] \notin exist_ids
                   /\ records' = Append(records, Row(src.final[loc.block[i]]))
                   /\ Len(loc'.comments) > Len(loc.comments)
                   /\ SubSeq(loc'.comments, 1, Len(loc.comments)) = loc.comments
                   /\ \A k \in (Len(loc.comments) + 1)..Len(loc'.comments) :
                         /\ loc'.comments[k].profile_id = loc.block[i]
                         /\ \E n \in 1..Len(src.comments[loc.block[i]]) :
                               src.comments[loc.block[i]][n] = loc'.comments[k].id
          /\ (\E i \in 1..Len(loc.w) : loc.w[i] = "locked" /\ loc'.w[i] = "done") =>
                /\ UNCHANGED <<records, exist_ids, has_update, store>>
                /\ loc'.comments = loc.comments
                /\ loc'.exist_comment_ids = loc.exist_comment_ids]_vars

\* the two profiles of the table, whose comment lists share an id, were
\* admitted by the first run, one of them under another id: the shared
\* comment is in the published table once; the second run fetched that
\* profile again and found the id it returns in the ledger
C38_Witness ==
    /\ prog = "pdbdb" /\ second
    /\ Len(src.table) = 2 /\ src.table[1] # src.table[2]
    /\ \E n \in 1..Len(src.comments[src.table[1]]),
          m \in 1..Len(src.comments[src.table[2]]) :
          src.comments[src.table[1]][n] = src.comments[src.table[2]][m]
    /\ Len(records) = 2
    /\ Len(loc.comments) = 2
    /\ store.comments = SortComments(loc.comments)
    /\ \E i \in 1..Len(loc.block) :
          /\ loc.w[i] = "done"
          /\ src.final[loc.block[i]] \in IdsOf(loaded)
          /\ src.comments[loc.block[i]] # <<>>

\* the paths of the volumes 0..MaxVolume
VolumePaths == {VolumeFile(v) : v \in 0..MaxVolume}

\* C39: in imgflip/db, every record of the table of the store names in
\* volume_file the path of a volume whose id is at least 1 and at most the
\* max_volume_id of the store, and the store holds the archive of that volume
\* at that path, with the image of the record among its members; and the
\* volumes 0..MaxVolume have MaxVolume + 1 different paths.
C39_PublishedSnapshot ==
    /\ prog = "imgflipdb" =>
          \A k \in 1..Len(store.table) :
             \E v \in 1..store.max_volume_id :
                /\ store.table[k].volume_file = VolumeFile(v)
                /\ \E a \in store.archives :
                      /\ a.volume = v /\ a.path = VolumeFile(v)
                      /\ \E n \in 1..Len(a.members) : a.members[n] = store.table[k].id
    /\ Cardinality(VolumePaths) = MaxVolume + 1

\* the second run has published a block whose archive holds one image, beside
\* the record and the archive the first run published
C39_Witness ==
    /\ prog = "imgflipdb" /\ second /\ Len(loaded) = 1
    /\ uploads # <<>> /\ uploads[Len(uploads)].ok
    /\ Len(store.table) = 2
    /\ store.table[1].volume_file # store.table[2].volume_file
    /\ Cardinality(store.archives) = 2

====
